---- MODULE Spec2Model ----
(***************************************************************************)
(* Model of calculateAllRatings (the uncertainty + normalized-performance  *)
(* variant of the leaderboard script).  One run of the script is a state   *)
(* machine: the "Raw Data" sheet is read, rows are grouped by MatchID, the  *)
(* groups are visited in ascending numeric order, each group passes the    *)
(* admission gate or is skipped, an admitted group updates the player       *)
(* table team A first and team B second, and at the end the "Rating         *)
(* Change" and "Leaderboard" sheets are rewritten.                          *)
(*                                                                         *)
(* JavaScript numbers are modelled in fixed point.  Every scale is named    *)
(* below; divisions round to nearest as IEEE arithmetic does.  perfMod is   *)
(* kept as an exact fraction num/den so that the normalisation identity     *)
(* can be checked without rounding noise.                                   *)
(***************************************************************************)
EXTENDS Integers, Sequences, FiniteSets, TLC

VARIABLES
  rawData,          \* rawSheet.getDataRange().getValues(): header row, then data rows
  rcSheet,          \* contents of the "Rating Change" sheet
  lbSheet,          \* contents of the "Leaderboard" sheet
  alert,            \* last message shown by SpreadsheetApp.getUi().alert
  logger,           \* Logger.log warnings and errors, in order
  pc,               \* position of the run inside calculateAllRatings
  players,          \* const players = {}: name -> rating, matches, uncertainty, lastDate
  playerOrder,      \* insertion order of the keys of players
  rowRatingChanges, \* const rowRatingChanges = {}: rowIndex -> Math.round(ratingChange)
  matches,          \* const matches = {}: matchID -> rows of that match, in input order
  sortedMatchIDs,   \* Object.keys(matches).sort(numeric)
  cur,              \* index of the loop "for (const matchID of sortedMatchIDs)"
  ctx,              \* locals of the current iteration (matchDate, lobby and team values)
  teamStats,        \* the array computeTeamStats returned last, with perfMod filled in
  hist,             \* history of the run: what was done to which match, in order
  prev              \* what each earlier run on this sheet left behind, oldest first

vars == <<rawData, rcSheet, lbSheet, alert, logger, pc, players, playerOrder,
          rowRatingChanges, matches, sortedMatchIDs, cur, ctx, teamStats, hist, prev>>

----------------------------------------------------------------------------
(* Bounds of the model *)

\* largest number of matches in a freely composed input sheet
MaxMatches == 2

\* largest number of matches in a "season" input (the same ten players again and again)
MaxSeason == 9

\* how often "Calculate Ratings" is chosen on one sheet
MaxRuns == 2

\* largest number of matches of a sheet on which it is chosen again
MaxRerunMatches == 1

----------------------------------------------------------------------------
(* Program constants *)

U_MIN == 50
U_INIT == 200
U_MAX == 200
C == 20
\* DECAY = 0.85, in percent
DECAY == 85
K_MULT_MAX == 2
\* teamA.length !== 5 || teamB.length !== 5
TEAM_SIZE == 5
\* lobbyACS = totalACS / 10, lobbyKDA = ... / 10
LOBBY_SIZE == 10
INITIAL_RATING == 1500
\* baseK = 32 * Math.max(1 - state.matches / 30, 0.5)
BASE_K == 32
K_MATCHES == 30
\* PERF_GAMMA = 2.5 is x^2 * sqrt(x); PERF_MIN = 0.70 and PERF_MAX = 1.90 in thousandths
PERF_MIN == 700
PERF_MAX == 1900
\* Math.min(myKDA / lobbyKDA, 2.5), in thousandths
KDA_RATIO_MAX == 2500
\* Math.pow(10, (opp - my) / 400)
ELO_DIV == 400

----------------------------------------------------------------------------
(* Fixed-point scales of the JavaScript numbers *)

RS == 10 * 10          \* rating and ratingChange: hundredths of a point
US == 10 * 10          \* uncertainty: hundredths
PS == 100 * 100        \* teamPerf, expected, baseChange, u01, kMult: 1/10000
XS == 10 * 100         \* acsRatio, kdaRatio, perfIndex, KDA: thousandths
WS == 10 * 10          \* rawPerf and 1/rawPerf: hundredths
KS == 2 * 2            \* kFactor: quarters

Max(a, b) == IF a >= b THEN a ELSE b
Min(a, b) == IF a <= b THEN a ELSE b
Abs(a) == IF a >= 0 THEN a ELSE -a

\* a / b rounded to the nearest integer (ties up), b > 0
RDiv(a, b) == (2 * a + b) \div (2 * b)

\* Math.round(x) of a number kept in units of 1/scale: floor(x + 0.5)
MathRound(x, scale) == (2 * x + scale) \div (2 * scale)

RECURSIVE SqrtSearch(_, _, _)
SqrtSearch(x, lo, hi) ==
  IF lo >= hi THEN lo
  ELSE LET mid == (lo + hi + 1) \div 2
       IN IF mid * mid <= x THEN SqrtSearch(x, mid, hi)
                            ELSE SqrtSearch(x, lo, mid - 1)

\* Math.sqrt on a non-negative integer below 2^31: the integer square root
ISqrt(x) == SqrtSearch(x, 0, 46340)

\* <<quotient, remainder>> of a * b by c for a >= 0, 0 <= b < c, by halving a, so
\* that no intermediate value leaves the 32-bit integers
RECURSIVE MulDivRem(_, _, _)
MulDivRem(a, b, c) ==
  IF a = 0 THEN <<0, 0>>
  ELSE LET h == MulDivRem(a \div 2, b, c)
           r == 2 * h[2] + (a % 2) * b
       IN <<2 * h[1] + r \div c, r % c>>

\* a * b / c rounded to the nearest integer, for b >= 0 and c > 0
MulDiv(a, b, c) ==
  LET m  == Abs(a)
      qr == MulDivRem(m, b % c, c)
      q  == m * (b \div c) + qr[1] + (IF 2 * qr[2] >= c THEN 1 ELSE 0)
  IN IF a >= 0 THEN q ELSE -q

RECURSIVE SumSeq(_)
SumSeq(s) == IF s = <<>> THEN 0 ELSE Head(s) + SumSeq(Tail(s))

\* Math.tanh(m / 4) for m = 0..13, in 1/10000
TanhTable ==
  <<0, 2449, 4621, 6351, 7616, 8483, 9051, 9414, 9640, 9780, 9866, 9919, 9951, 9970>>

\* Math.tanh(marginA / 4): odd, saturating beyond the table
Tanh4(m) ==
  LET a == Min(Abs(m), Len(TanhTable) - 1)
      t == TanhTable[a + 1]
  IN IF m >= 0 THEN t ELSE -t

\* 10^(k/16) for k = 0..32, in 1/10000
Pow10Table ==
  <<10000, 11548, 13335, 15399, 17783, 20535, 23714, 27384, 31623,
    36517, 42170, 48697, 56234, 64938, 74989, 86596, 100000, 115478, 133352, 153993,
    177828, 205353, 237137, 273842, 316228, 365174, 421697, 486968, 562341, 649382,
    749894, 865964, 1000000>>

\* rating points between two entries of Pow10Table, in hundredths: 400 / 16 points
Pow10Step == (ELO_DIV * RS) \div 16

\* Math.pow(10, d / 400) for d >= 0 in hundredths of a rating point: the table,
\* linearly interpolated, saturating beyond 800 points
Pow10Pos(d) ==
  LET dd == Min(32 * Pow10Step, d)
      k  == dd \div Pow10Step
      f  == dd - k * Pow10Step
      lo == Pow10Table[k + 1]
      hi == IF k = 32 THEN lo ELSE Pow10Table[k + 2]
  IN lo + ((hi - lo) * f) \div Pow10Step

\* Math.pow(10, d / 400) for a rating difference d in hundredths of a point; a
\* negative exponent gives the reciprocal of the power of the positive one
Pow10(d) == IF d >= 0 THEN Pow10Pos(d) ELSE RDiv(PS * PS, Pow10Pos(-d))

----------------------------------------------------------------------------
(* The "Raw Data" sheet: the inputs of a run *)

\* a cell of column 0: a Date object, an Invalid Date object, or text
DateCell(day) == [kind |-> "date", t |-> day]
InvalidDateCell == [kind |-> "nan", t |-> 0]
TextDateCell == [kind |-> "text", t |-> 0]
\* lastDate: null
NullDate == [kind |-> "null", t |-> 0]

Header == <<"Date", "MatchID", "Map", "Agent", "Player", "Team", "RoundsWon",
            "RoundsLost", "ACS", "Kills", "Deaths", "Assists">>

\* getValues() of a sheet with no content at all: one row with one empty cell
BlankSheet == << <<"">> >>

\* the columns of a data row that the script reads: row[0], row[1], row[4..11]
Row(date, id, player, team, won, lost, acs, kills, deaths, assists) ==
  [date |-> date, matchID |-> id, player |-> player, team |-> team,
   roundsWon |-> won, roundsLost |-> lost, acs |-> acs, kills |-> kills,
   deaths |-> deaths, assists |-> assists]

\* rosters: (player, team label) per row, in row order
StdRoster ==
  << <<"p1", "A">>, <<"p2", "A">>, <<"p3", "A">>, <<"p4", "A">>, <<"p5", "A">>,
     <<"p6", "B">>, <<"p7", "B">>, <<"p8", "B">>, <<"p9", "B">>, <<"p10", "B">> >>
\* other players, teams reshuffled, rows of the two teams alternating (B first)
MixedRoster ==
  << <<"p3", "B">>, <<"p1", "A">>, <<"p4", "B">>, <<"p2", "A">>, <<"p8", "B">>,
     <<"p6", "A">>, <<"p9", "B">>, <<"p7", "A">>, <<"p12", "B">>, <<"p11", "A">> >>
\* p1 entered twice on team A
DupRoster ==
  << <<"p1", "A">>, <<"p1", "A">>, <<"p2", "A">>, <<"p3", "A">>, <<"p4", "A">>,
     <<"p6", "B">>, <<"p7", "B">>, <<"p8", "B">>, <<"p9", "B">>, <<"p10", "B">> >>
\* p1 entered on team A and on team B
BothRoster ==
  << <<"p1", "A">>, <<"p2", "A">>, <<"p3", "A">>, <<"p4", "A">>, <<"p5", "A">>,
     <<"p1", "B">>, <<"p7", "B">>, <<"p8", "B">>, <<"p9", "B">>, <<"p10", "B">> >>
\* 6 against 4
SixFourRoster ==
  << <<"p1", "A">>, <<"p2", "A">>, <<"p3", "A">>, <<"p4", "A">>, <<"p5", "A">>,
     <<"p6", "A">>, <<"p7", "B">>, <<"p8", "B">>, <<"p9", "B">>, <<"p13", "B">> >>
\* 5 against 5 and an eleventh row labelled "b"
BadLabelRoster ==
  << <<"p1", "A">>, <<"p2", "A">>, <<"p3", "A">>, <<"p4", "A">>, <<"p5", "A">>,
     <<"p6", "B">>, <<"p7", "B">>, <<"p8", "B">>, <<"p9", "B">>, <<"p10", "B">>,
     <<"p14", "b">> >>

\* the first five players of StdRoster against five players never seen before
NewcomersRoster ==
  << <<"p1", "A">>, <<"p2", "A">>, <<"p3", "A">>, <<"p4", "A">>, <<"p5", "A">>,
     <<"p15", "B">>, <<"p16", "B">>, <<"p17", "B">>, <<"p18", "B">>, <<"p19", "B">> >>

\* per-row statistics: <<ACS, kills, deaths, assists>>
UniformStats == [j \in 1..11 |-> <<200, 15, 15, 4>>]
VariedStats ==
  << <<320, 25, 10, 5>>, <<250, 18, 14, 8>>, <<200, 15, 15, 4>>, <<150, 10, 16, 6>>,
     <<80, 5, 18, 2>>,   <<300, 22, 12, 3>>, <<220, 16, 15, 9>>, <<210, 15, 14, 4>>,
     <<140, 9, 17, 7>>,  <<130, 8, 0, 1>>,   <<100, 7, 9, 3>> >>
ZeroStats == [j \in 1..11 |-> <<0, 0, 0, 0>>]

Kind(roster, stats, won, lost, date) ==
  [roster |-> roster, stats |-> stats, won |-> won, lost |-> lost, date |-> date]

KStd     == Kind(StdRoster, UniformStats, 13, 4, DateCell(1))
KLoss    == Kind(StdRoster, VariedStats, 4, 13, DateCell(3))
KMixed   == Kind(MixedRoster, VariedStats, 13, 11, DateCell(40))
KDup     == Kind(DupRoster, VariedStats, 13, 4, DateCell(3))
KBoth    == Kind(BothRoster, UniformStats, 13, 4, DateCell(3))
KSixFour == Kind(SixFourRoster, UniformStats, 13, 4, DateCell(1))
KBadLbl  == Kind(BadLabelRoster, UniformStats, 13, 4, DateCell(1))
KNaNDate == Kind(StdRoster, UniformStats, 13, 4, InvalidDateCell)
KTxtDate == Kind(StdRoster, VariedStats, 4, 13, TextDateCell)
KDraw    == Kind(StdRoster, ZeroStats, 12, 12, DateCell(1))
KDrawNew == Kind(NewcomersRoster, UniformStats, 12, 12, DateCell(1))

Kinds == {KStd, KLoss, KMixed, KDup, KBoth, KSixFour, KBadLbl, KNaNDate, KTxtDate, KDraw}

\* the rows of one match: team A rows carry (won, lost), the others (lost, won)
MatchRows(k, id) ==
  [j \in 1..Len(k.roster) |->
     LET a == k.roster[j][2] = "A"
     IN Row(k.date, id, k.roster[j][1], k.roster[j][2],
            IF a THEN k.won ELSE k.lost, IF a THEN k.lost ELSE k.won,
            k.stats[j][1], k.stats[j][2], k.stats[j][3], k.stats[j][4])]

RECURSIVE Concat(_)
Concat(blocks) == IF blocks = <<>> THEN <<>> ELSE Head(blocks) \o Concat(Tail(blocks))

\* rows of the blocks taken in turn: first rows of every match, then second rows, ...
RECURSIVE RoundRobin(_, _)
RoundRobin(blocks, j) ==
  IF \A b \in 1..Len(blocks) : j > Len(blocks[b]) THEN <<>>
  ELSE Concat([b \in 1..Len(blocks) |->
                 IF j <= Len(blocks[b]) THEN <<blocks[b][j]>> ELSE <<>>])
       \o RoundRobin(blocks, j + 1)

\* MatchID cells are text.  A layout is the order in which the IDs are given to the
\* matches of a sheet, and whether the rows of the matches are interleaved
Layouts == { <<<<"2", "10", "007">>, FALSE>>, <<<<"10", "007", "2">>, TRUE>>,
             <<<<"007", "2", "10">>, FALSE>> }
SeasonIds == <<"1", "2", "3", "4", "5", "6", "7", "8", "9", "10", "11", "12">>

\* Number(matchID)
Number(id) ==
  CASE id = "1" -> 1 [] id = "2" -> 2 [] id = "3" -> 3 [] id = "4" -> 4
    [] id = "5" -> 5 [] id = "6" -> 6 [] id = "7" -> 7 [] id = "8" -> 8
    [] id = "9" -> 9 [] id = "10" -> 10 [] id = "11" -> 11 [] id = "12" -> 12
    [] id = "007" -> 7

\* a property key that is a canonical array index: String(Number(id)) = id
IsIndexKey(id) == id # "007"

Sheet(kinds, ids, interleaved) ==
  LET blocks == [b \in 1..Len(kinds) |-> MatchRows(kinds[b], ids[b])]
  IN <<Header>> \o (IF interleaved THEN RoundRobin(blocks, 1) ELSE Concat(blocks))

\* freely composed sheets: up to MaxMatches matches, the first two of any kind, a
\* later one a lost match, a match of the mixed roster or a match of 6 against 4
FreeSheets ==
  { Sheet(ks, lay[1], lay[2]) :
      ks \in UNION { { q \in [1..n -> Kinds] :
                        \A b \in 3..n : q[b] \in {KLoss, KMixed, KSixFour} } :
                      n \in 1..MaxMatches },
      lay \in Layouts }

\* a season: the same ten players meet up to MaxSeason times, either always with the
\* same result on the same day, or with the second match lost and two days later
SeasonSheets ==
  { Sheet([b \in 1..n |-> IF late /\ b = 2 THEN KLoss ELSE KStd], SeasonIds, FALSE) :
      n \in 1..MaxSeason, late \in BOOLEAN }

\* three matches of which the middle one has an invalid date: the match of the
\* later day first, the match of the earlier day last
UndatedSheets ==
  { Sheet(<<KMixed, KNaNDate, KStd>>, <<"007", "10", "2">>, il) : il \in BOOLEAN }

\* two draws on the same day: ten new players, then five of them against five
\* newcomers
DrawSheets == { Sheet(<<KDraw, KDrawNew>>, <<"1", "2">>, FALSE) }

\* row i of the sheet is the first team-A row of its match
AnchorRow(data, i) ==
  /\ data[i].team = "A"
  /\ \A j \in 2..(i - 1) : ~(data[j].matchID = data[i].matchID /\ data[j].team = "A")

\* the sheet with other RoundsWon / RoundsLost cells in every row that is not the
\* first team-A row of its match: the two cells exchanged, or both set to 0
OtherRounds(data, mode) ==
  [i \in 1..Len(data) |->
     IF i = 1 \/ AnchorRow(data, i) THEN data[i]
     ELSE [data[i] EXCEPT !.roundsWon = IF mode = "swap" THEN data[i].roundsLost ELSE 0,
                          !.roundsLost = IF mode = "swap" THEN data[i].roundsWon ELSE 0]]

RoundsModes == {"swap", "zero"}

\* sheets in which only the first team-A row of a match tells its result
ContradictingSheets ==
  { OtherRounds(Sheet(<<KLoss, KMixed>>, <<"2", "10">>, il), mode) :
      il \in BOOLEAN, mode \in RoundsModes }

Inputs ==
  {<<Header>>, BlankSheet} \cup FreeSheets \cup SeasonSheets \cup UndatedSheets
    \cup DrawSheets \cup ContradictingSheets

\* what the output sheets hold before the run (an earlier run's output)
StaleSheet == << <<"stale">> >>

NoCtx == [id |-> "", valid |-> FALSE]

Init ==
  /\ rawData \in Inputs
  /\ rcSheet = StaleSheet
  /\ lbSheet = StaleSheet
  /\ alert = ""
  /\ logger = <<>>
  /\ pc = "start"
  /\ players = <<>>
  /\ playerOrder = <<>>
  /\ rowRatingChanges = <<>>
  /\ matches = <<>>
  /\ sortedMatchIDs = <<>>
  /\ cur = 1
  /\ ctx = NoCtx
  /\ teamStats = <<>>
  /\ hist = <<>>
  /\ prev = <<>>

----------------------------------------------------------------------------
(* Sorting: Array.prototype.sort is stable *)

\* where x goes in the sorted index sequence s (binary insertion: after every
\* element it is not less than); lt[<<a, b>>] is "comparator(a, b) < 0"
RECURSIVE InsertPos(_, _, _, _, _)
InsertPos(x, s, lt, lo, hi) ==
  IF lo >= hi THEN lo
  ELSE LET mid == (lo + hi) \div 2
       IN IF lt[<<x, s[mid + 1]>>] THEN InsertPos(x, s, lt, lo, mid)
                                   ELSE InsertPos(x, s, lt, mid + 1, hi)

InsertIdx(x, s, lt) ==
  LET k == InsertPos(x, s, lt, 0, Len(s))
  IN SubSeq(s, 1, k) \o <<x>> \o SubSeq(s, k + 1, Len(s))

\* the positions lo..hi inserted one after the other into acc; the lower half is
\* complete (it holds mid - lo + 1 more positions) before the upper half is entered
RECURSIVE SortIdxRange(_, _, _, _)
SortIdxRange(lo, hi, acc, lt) ==
  IF lo > hi THEN acc
  ELSE IF lo = hi THEN InsertIdx(lo, acc, lt)
  ELSE LET mid  == (lo + hi) \div 2
           left == SortIdxRange(lo, mid, acc, lt)
       IN IF Len(left) = Len(acc) + (mid - lo + 1)
          THEN SortIdxRange(mid + 1, hi, left, lt)
          ELSE acc

\* the positions 1..n in sorted order
SortIdx(n, lt) == SortIdxRange(1, n, <<>>, lt)

----------------------------------------------------------------------------
(* Grouping the rows by MatchID *)

\* the object pushed to matches[matchID] for rawData[i] (i counts from 0, header at 0)
RowObj(data, i) == [rowIndex |-> i] @@ data[i + 1]

\* the match IDs in the order in which the grouping loop first meets them
FirstSeen(data) ==
  LET ids == { data[i].matchID : i \in 2..Len(data) }
      first == [id \in ids |->
                  CHOOSE i \in 2..Len(data) :
                    data[i].matchID = id /\ \A j \in 2..(i - 1) : data[j].matchID # id]
  IN [k \in 1..Cardinality(ids) |->
        CHOOSE id \in ids : Cardinality({ o \in ids : first[o] < first[id] }) = k - 1]

\* const matches = {}; for (let i = 1; ...) matches[matchID].push({...})
GroupRows(data) ==
  LET ids == { data[i].matchID : i \in 2..Len(data) }
      objs == [i \in 1..(Len(data) - 1) |-> RowObj(data, i)]
  IN [id \in ids |-> SelectSeq(objs, LAMBDA r : r.matchID = id)]

\* Object.keys(matches): array-index keys in ascending numeric order, then the
\* other keys in insertion order
ObjectKeys(data) ==
  LET seen == FirstSeen(data)
      idx  == SelectSeq(seen, IsIndexKey)
      oth  == SelectSeq(seen, LAMBDA id : ~IsIndexKey(id))
      lt   == [pr \in (1..Len(idx)) \X (1..Len(idx)) |->
                 Number(idx[pr[1]]) < Number(idx[pr[2]])]
      ord  == SortIdx(Len(idx), lt)
  IN [k \in 1..Len(idx) |-> idx[ord[k]]] \o oth

\* the keys left in the order Object.keys gives them
SortMatchIDsOmitted(keys) == keys

\* keys.sort((a, b) => Number(a) - Number(b))
SortMatchIDs(keys) ==
  LET lt  == [pr \in (1..Len(keys)) \X (1..Len(keys)) |->
                Number(keys[pr[1]]) - Number(keys[pr[2]]) < 0]
      ord == SortIdx(Len(keys), lt)
  IN [k \in 1..Len(keys) |-> keys[ord[k]]]

----------------------------------------------------------------------------
(* The admission gate *)

\* validateMatch: every row's team is 'A' or 'B'
ValidateMatch(matchPlayers) ==
  \A j \in 1..Len(matchPlayers) : matchPlayers[j].team \in {"A", "B"}

\* matchPlayers.filter(p => p.team === label)
TeamOf(matchPlayers, label) ==
  SelectSeq(matchPlayers, LAMBDA p : p.team = label)

\* teamA.length !== 5 || teamB.length !== 5, negated
TeamSizesOk(matchPlayers) ==
  /\ Len(TeamOf(matchPlayers, "A")) = TEAM_SIZE
  /\ Len(TeamOf(matchPlayers, "B")) = TEAM_SIZE

\* matchDate instanceof Date && !isNaN(matchDate.getTime())
DateOk(d) == d.kind = "date"

----------------------------------------------------------------------------
(* Player state *)

NewPlayer ==
  [rating |-> INITIAL_RATING * RS, matches |-> 0, uncertainty |-> U_INIT * US,
   lastDate |-> NullDate]

\* matchPlayers.forEach(p => { if (!players[p.player]) players[p.player] = {...} })
RECURSIVE InitPlayers(_, _, _)
InitPlayers(pl, matchPlayers, j) ==
  IF j > Len(matchPlayers) THEN pl
  ELSE LET name == matchPlayers[j].player
       IN InitPlayers(IF name \in DOMAIN pl THEN pl ELSE (name :> NewPlayer) @@ pl,
                      matchPlayers, j + 1)

\* the keys of players in insertion order, after the same forEach
RECURSIVE InitOrder(_, _, _)
InitOrder(order, matchPlayers, j) ==
  IF j > Len(matchPlayers) THEN order
  ELSE LET name == matchPlayers[j].player
       IN InitOrder(IF \E k \in 1..Len(order) : order[k] = name
                    THEN order ELSE Append(order, name),
                    matchPlayers, j + 1)

\* Math.min(U_MAX, Math.sqrt(u * u + C * C * daysIdle))
Grow(u, daysIdle) == Min(U_MAX * US, ISqrt(u * u + C * C * daysIdle * US * US))

\* the body of the idle-growth forEach for one row
GrowOne(state, matchDate) ==
  IF state.lastDate.kind # "null" /\ matchDate.t - state.lastDate.t > 0
  THEN [state EXCEPT !.uncertainty = Grow(@, matchDate.t - state.lastDate.t)]
  ELSE state

\* matchPlayers.forEach(p => { const state = players[p.player]; ... })
RECURSIVE GrowPlayers(_, _, _, _)
GrowPlayers(pl, matchPlayers, matchDate, j) ==
  IF j > Len(matchPlayers) THEN pl
  ELSE LET name == matchPlayers[j].player
       IN GrowPlayers([pl EXCEPT ![name] = GrowOne(@, matchDate)],
                      matchPlayers, matchDate, j + 1)

----------------------------------------------------------------------------
(* Lobby and team values of a match *)

\* (p.kills + p.assists * 0.5) / Math.max(p.deaths, 1)
KDA(p) == RDiv((2 * p.kills + p.assists) * XS, 2 * Max(p.deaths, 1))

\* totalACS / 10
LobbyACS(matchPlayers) ==
  RDiv(SumSeq([j \in 1..Len(matchPlayers) |-> matchPlayers[j].acs]) * XS, LOBBY_SIZE)

\* matchKDAs.reduce(...) / 10
LobbyKDA(matchPlayers) ==
  RDiv(SumSeq([j \in 1..Len(matchPlayers) |-> KDA(matchPlayers[j])]), LOBBY_SIZE)

\* team.map(p => players[p.player].rating).reduce(...) / 5
TeamAvgRating(pl, team) ==
  RDiv(SumSeq([j \in 1..Len(team) |-> pl[team[j].player].rating]), TEAM_SIZE)

\* 0.5 + 0.5 * Math.tanh(marginA / 4)
TeamAPerf(marginA) == RDiv(PS + Tanh4(marginA), 2)

\* the locals of one loop iteration with marginA read from the last team-A row
MatchContextLastRow(pl, id, matchPlayers) ==
  LET matchDate == matchPlayers[1].date
      pre    == InitPlayers(pl, matchPlayers, 1)
      grown  == GrowPlayers(pre, matchPlayers, matchDate, 1)
      teamA  == TeamOf(matchPlayers, "A")
      teamB  == TeamOf(matchPlayers, "B")
      marginA == teamA[Len(teamA)].roundsWon - teamA[Len(teamA)].roundsLost
  IN [id |-> id, valid |-> TRUE, matchDate |-> matchDate,
      matchPlayers |-> matchPlayers, teamA |-> teamA, teamB |-> teamB,
      lobbyACS |-> LobbyACS(matchPlayers), lobbyKDA |-> LobbyKDA(matchPlayers),
      teamAAvgRating |-> TeamAvgRating(grown, teamA),
      teamBAvgRating |-> TeamAvgRating(grown, teamB),
      teamAPerf |-> TeamAPerf(marginA), teamBPerf |-> PS - TeamAPerf(marginA),
      pre |-> pre, grown |-> grown]

\* the locals of one loop iteration with teamBPerf taken equal to teamAPerf
MatchContextSamePerf(pl, id, matchPlayers) ==
  LET matchDate == matchPlayers[1].date
      pre    == InitPlayers(pl, matchPlayers, 1)
      grown  == GrowPlayers(pre, matchPlayers, matchDate, 1)
      teamA  == TeamOf(matchPlayers, "A")
      teamB  == TeamOf(matchPlayers, "B")
      marginA == teamA[1].roundsWon - teamA[1].roundsLost
  IN [id |-> id, valid |-> TRUE, matchDate |-> matchDate,
      matchPlayers |-> matchPlayers, teamA |-> teamA, teamB |-> teamB,
      lobbyACS |-> LobbyACS(matchPlayers), lobbyKDA |-> LobbyKDA(matchPlayers),
      teamAAvgRating |-> TeamAvgRating(grown, teamA),
      teamBAvgRating |-> TeamAvgRating(grown, teamB),
      teamAPerf |-> TeamAPerf(marginA), teamBPerf |-> TeamAPerf(marginA),
      pre |-> pre, grown |-> grown]

\* the locals of one loop iteration, from "Initialize new players" to teamBPerf;
\* pre and grown keep the player table as it was before and after the idle growth
MatchContext(pl, id, matchPlayers) ==
  LET matchDate == matchPlayers[1].date
      pre    == InitPlayers(pl, matchPlayers, 1)
      grown  == GrowPlayers(pre, matchPlayers, matchDate, 1)
      teamA  == TeamOf(matchPlayers, "A")
      teamB  == TeamOf(matchPlayers, "B")
      marginA == teamA[1].roundsWon - teamA[1].roundsLost
  IN [id |-> id, valid |-> TRUE, matchDate |-> matchDate,
      matchPlayers |-> matchPlayers, teamA |-> teamA, teamB |-> teamB,
      lobbyACS |-> LobbyACS(matchPlayers), lobbyKDA |-> LobbyKDA(matchPlayers),
      teamAAvgRating |-> TeamAvgRating(grown, teamA),
      teamBAvgRating |-> TeamAvgRating(grown, teamB),
      teamAPerf |-> TeamAPerf(marginA), teamBPerf |-> PS - TeamAPerf(marginA),
      pre |-> pre, grown |-> grown]

----------------------------------------------------------------------------
(* Pass 1: computeTeamStats *)

\* 1 / (1 + Math.pow(10, (oppTeamAvgRating - myTeamAvgRating) / 400))
Expected(myTeamAvgRating, oppTeamAvgRating) ==
  RDiv(PS * PS, PS + Pow10(oppTeamAvgRating - myTeamAvgRating))

\* 0.6 * acsRatio + 0.4 * kdaRatio
PerfIndex(p, lobbyACS, lobbyKDA) ==
  LET acsRatio == IF lobbyACS > 0 THEN RDiv(p.acs * XS * XS, lobbyACS) ELSE XS
      kdaRatio == IF lobbyKDA > 0
                  THEN Min(RDiv(KDA(p) * XS, lobbyKDA), KDA_RATIO_MAX) ELSE XS
  IN RDiv(6 * acsRatio + 4 * kdaRatio, 10)

\* Math.pow(Math.max(PERF_MIN, Math.min(PERF_MAX, perfIndex)), 2.5)
RawPerf(perfIndex) ==
  LET x == Max(PERF_MIN, Min(PERF_MAX, perfIndex))
  IN RDiv(RDiv(x * x, XS) * ISqrt(x * XS), (XS * XS) \div WS)

\* Math.max(0, Math.min(1, (u - U_MIN) / (U_MAX - U_MIN)))
U01(u) == Max(0, Min(PS, RDiv((u - U_MIN * US) * PS, (U_MAX - U_MIN) * US)))

\* baseK * kMult, baseK = 32 * max(1 - matches / 30, 0.5), kMult = 1 + u01 * (K_MULT_MAX - 1)
KFactor(state) ==
  LET baseK30 == BASE_K * Max(K_MATCHES - state.matches, K_MATCHES \div 2)
      kMult   == PS + U01(state.uncertainty) * (K_MULT_MAX - 1)
  IN RDiv(baseK30 * kMult * KS, K_MATCHES * PS)

\* computeTeamStats(team, myTeamPerf, myTeamAvgRating, oppTeamAvgRating), reading the
\* player table pl as it is when the call is made
ComputeTeamStats(pl, c, team, myTeamPerf, myTeamAvgRating, oppTeamAvgRating) ==
  LET expected   == Expected(myTeamAvgRating, oppTeamAvgRating)
      baseChange == myTeamPerf - expected
      isGain     == baseChange > 0
  IN [j \in 1..Len(team) |->
        LET pi == PerfIndex(team[j], c.lobbyACS, c.lobbyKDA)
        IN [p |-> team[j], perfIndex |-> pi, rawPerf |-> RawPerf(pi),
            kFactor |-> KFactor(pl[team[j].player]),
            baseChange |-> baseChange, isGain |-> isGain]]

----------------------------------------------------------------------------
(* Pass 2: applyTeamChanges *)

\* rawPerf taken as the weight in the loss branch as well
PerfWeightNotInverted(t) == t.rawPerf

\* the weight that is averaged: rawPerf for a gain, 1 / rawPerf for a loss
PerfWeight(t) == IF t.isGain THEN t.rawPerf ELSE RDiv(WS * WS, t.rawPerf)

\* the weights divided by their plain mean instead of their K-weighted mean
NormalizeUnweighted(stats) ==
  LET sumW == SumSeq([j \in 1..Len(stats) |-> PerfWeight(stats[j])])
  IN [j \in 1..Len(stats) |->
        stats[j] @@ [perfMod |-> [num |-> PerfWeight(stats[j]) * Len(stats), den |-> sumW]]]

\* sumK and the K-weighted sum of the weights; perfMod = weight / (sumKW / sumK),
\* kept as the fraction (weight * sumK) / sumKW
Normalize(stats) ==
  LET sumK  == SumSeq([j \in 1..Len(stats) |-> stats[j].kFactor])
      sumKW == SumSeq([j \in 1..Len(stats) |-> stats[j].kFactor * PerfWeight(stats[j])])
  IN [j \in 1..Len(stats) |->
        stats[j] @@ [perfMod |-> [num |-> PerfWeight(stats[j]) * sumK, den |-> sumKW]]]

\* t.kFactor * t.baseChange * t.perfMod, in hundredths of a rating point
RatingChange(t) ==
  MulDiv(t.kFactor * t.baseChange, t.perfMod.num, t.perfMod.den * ((KS * PS) \div RS))

\* the decay without its floor
DecayNoFloor(u) == RDiv(u * DECAY, 100)

\* Math.max(U_MIN, t.state.uncertainty * DECAY)
Decay(u) == Max(U_MIN * US, RDiv(u * DECAY, 100))

\* the rating moved by the rounded change that is recorded for the row
ApplyOneRounded(state, t, matchDate) ==
  [rating |-> state.rating + MathRound(RatingChange(t), RS) * RS,
   matches |-> state.matches + 1,
   uncertainty |-> Decay(state.uncertainty), lastDate |-> matchDate]

\* the body of the second forEach of applyTeamChanges, for one entry
ApplyOne(state, t, matchDate) ==
  [rating |-> state.rating + RatingChange(t), matches |-> state.matches + 1,
   uncertainty |-> Decay(state.uncertainty), lastDate |-> matchDate]

RECURSIVE ApplyChanges(_, _, _, _)
ApplyChanges(pl, stats, matchDate, j) ==
  IF j > Len(stats) THEN pl
  ELSE ApplyChanges([pl EXCEPT ![stats[j].p.player] = ApplyOne(@, stats[j], matchDate)],
                    stats, matchDate, j + 1)

\* the change of the last entry of a team left unrecorded
RecordChangesButLast(rrc, stats) ==
  [i \in DOMAIN rrc \cup { stats[j].p.rowIndex : j \in 1..(Len(stats) - 1) } |->
     IF \E j \in 1..(Len(stats) - 1) : stats[j].p.rowIndex = i
     THEN MathRound(RatingChange(stats[CHOOSE j \in 1..(Len(stats) - 1) :
                                          stats[j].p.rowIndex = i]), RS)
     ELSE rrc[i]]

\* rowRatingChanges[t.p.rowIndex] = Math.round(ratingChange), for every entry
RecordChanges(rrc, stats) ==
  [i \in DOMAIN rrc \cup { stats[j].p.rowIndex : j \in 1..Len(stats) } |->
     IF \E j \in 1..Len(stats) : stats[j].p.rowIndex = i
     THEN MathRound(RatingChange(stats[CHOOSE j \in 1..Len(stats) :
                                          stats[j].p.rowIndex = i]), RS)
     ELSE rrc[i]]

\* what the history keeps of one applyTeamChanges call
TeamEvent(id, ev, stats) ==
  [id |-> id, ev |-> ev,
   rows |-> [j \in 1..Len(stats) |->
               [rowIndex |-> stats[j].p.rowIndex, player |-> stats[j].p.player,
                change |-> RatingChange(stats[j])]]]

Event(id, ev) == [id |-> id, ev |-> ev, rows |-> <<>>]

\* what the history keeps of an admission: per row, how much the idle growth
\* added to the uncertainty of the row's player
AdmitEvent(c) ==
  [id |-> c.id, ev |-> "admit",
   rows |-> [j \in 1..Len(c.matchPlayers) |->
               [rowIndex |-> c.matchPlayers[j].rowIndex,
                player |-> c.matchPlayers[j].player,
                change |-> c.grown[c.matchPlayers[j].player].uncertainty
                           - c.pre[c.matchPlayers[j].player].uncertainty]]]

----------------------------------------------------------------------------
(* The output sheets *)

\* the value written to the "Rating Change" column: a number, or '' (blank)
Delta(v) == [blank |-> FALSE, v |-> v]
BlankDelta == [blank |-> TRUE, v |-> 0]

\* String.prototype.localeCompare on the MatchID texts, as their rank
LocaleOrder == <<"007", "1", "10", "11", "12", "2", "3", "4", "5", "6", "7", "8", "9">>
LocaleRank(id) == CHOOSE k \in 1..Len(LocaleOrder) : LocaleOrder[k] = id

\* < and > on the team labels (code-unit order), as their rank
TeamOrder == <<"A", "B", "b">>
TeamRank(t) == CHOOSE k \in 1..Len(TeamOrder) : TeamOrder[k] = t

\* a[0] < b[0] on two date cells: false whenever one of them is not a valid date
DateLess(a, b) == a.kind = "date" /\ b.kind = "date" /\ a.t < b.t

\* the comparator of rcRows.sort, as "comparator(a, b) < 0"
RcLess(a, b) ==
  IF DateLess(a.date, b.date) THEN TRUE
  ELSE IF DateLess(b.date, a.date) THEN FALSE
  ELSE IF LocaleRank(a.matchID) < LocaleRank(b.matchID) THEN TRUE
  ELSE IF LocaleRank(a.matchID) > LocaleRank(b.matchID) THEN FALSE
  ELSE IF a.roundsWon < b.roundsWon THEN TRUE
  ELSE IF a.roundsWon > b.roundsWon THEN FALSE
  ELSE IF TeamRank(a.team) < TeamRank(b.team) THEN TRUE
  ELSE IF TeamRank(a.team) > TeamRank(b.team) THEN FALSE
  ELSE IF b.acs # a.acs THEN b.acs - a.acs < 0
  ELSE b.kills - a.kills < 0

\* rcRows: every data row with its rating change appended, then sorted; rowIndex
\* is kept with the row to tell which input row it was
RcRows(data, rrc) ==
  LET rows == [i \in 1..(Len(data) - 1) |->
                 RowObj(data, i) @@
                 [change |-> IF i \in DOMAIN rrc THEN Delta(rrc[i]) ELSE BlankDelta]]
      lt   == [pr \in (1..Len(rows)) \X (1..Len(rows)) |-> RcLess(rows[pr[1]], rows[pr[2]])]
      ord  == SortIdx(Len(rows), lt)
  IN [k \in 1..Len(rows) |-> rows[ord[k]]]

\* the entries left in the key order of players
SortedPlayersUnsorted(pl, order) ==
  [k \in 1..Len(order) |->
     [player |-> order[k], rating |-> MathRound(pl[order[k]].rating, RS),
      matches |-> pl[order[k]].matches,
      uncertainty |-> MathRound(pl[order[k]].uncertainty, US),
      lastPlayed |-> pl[order[k]].lastDate]]

\* sortedPlayers: Object.entries(players).map(...).sort((a, b) => b.rating - a.rating)
SortedPlayers(pl, order) ==
  LET ent == [k \in 1..Len(order) |->
                [player |-> order[k], rating |-> MathRound(pl[order[k]].rating, RS),
                 matches |-> pl[order[k]].matches,
                 uncertainty |-> MathRound(pl[order[k]].uncertainty, US),
                 lastPlayed |-> pl[order[k]].lastDate]]
      lt  == [pr \in (1..Len(ent)) \X (1..Len(ent)) |->
                ent[pr[2]].rating - ent[pr[1]].rating < 0]
      ord == SortIdx(Len(ent), lt)
  IN [k \in 1..Len(ent) |-> ent[ord[k]]]

\* lbData: [index + 1, p.player, p.rating, p.matches, p.uncertainty, p.lastPlayed || '']
LbData(pl, order) ==
  LET sp == SortedPlayers(pl, order)
  IN [k \in 1..Len(sp) |-> [rank |-> k] @@ sp[k]]

RcHeader == Header \o <<"Rating Change">>
LbHeader == <<"Rank", "Player", "Rating", "Matches", "Uncertainty", "Last Played">>

----------------------------------------------------------------------------
(* The steps of calculateAllRatings *)

InLoop == pc = "loop" /\ cur <= Len(sortedMatchIDs)
CurID == sortedMatchIDs[cur]
CurRows == matches[CurID]

\* the abort placed after the "Leaderboard" sheet has been cleared
AbortAfterClear ==
  /\ pc = "start"
  /\ Len(rawData) < 2
  /\ lbSheet' = <<>>
  /\ alert' = "No data found in Raw Data sheet"
  /\ pc' = "aborted"
  /\ UNCHANGED <<rawData, prev, rcSheet, logger, players, playerOrder,
                 rowRatingChanges, matches, sortedMatchIDs, cur, ctx, teamStats, hist>>

\* if (rawData.length < 2) { alert('No data found in Raw Data sheet'); return; }
Abort ==
  /\ pc = "start"
  /\ Len(rawData) < 2
  /\ alert' = "No data found in Raw Data sheet"
  /\ pc' = "aborted"
  /\ UNCHANGED <<rawData, prev, rcSheet, lbSheet, logger, players, playerOrder,
                 rowRatingChanges, matches, sortedMatchIDs, cur, ctx, teamStats, hist>>

\* grouping by MatchID and sorting the IDs
Ingest ==
  /\ pc = "start"
  /\ Len(rawData) >= 2
  /\ matches' = GroupRows(rawData)
  /\ sortedMatchIDs' = SortMatchIDs(ObjectKeys(rawData))
  /\ cur' = 1
  /\ pc' = "loop"
  /\ UNCHANGED <<rawData, prev, rcSheet, lbSheet, alert, logger, players, playerOrder,
                 rowRatingChanges, ctx, teamStats, hist>>

\* what every skipped iteration does: log and continue
Skip(level, what) ==
  /\ logger' = Append(logger, [level |-> level, id |-> CurID, what |-> what])
  /\ hist' = Append(hist, Event(CurID, "skip"))
  /\ cur' = cur + 1
  /\ UNCHANGED <<rawData, prev, rcSheet, lbSheet, alert, pc, players, playerOrder,
                 rowRatingChanges, matches, sortedMatchIDs, ctx, teamStats>>

\* if (!validateMatch(matchPlayers)) continue;
RejectTeamLabel ==
  /\ InLoop
  /\ ~ValidateMatch(CurRows)
  /\ Skip("Warning", "wrong format for team")

\* the loop left (break) instead of continued
RejectTeamSizeBreaks ==
  /\ InLoop
  /\ ValidateMatch(CurRows)
  /\ ~TeamSizesOk(CurRows)
  /\ logger' = Append(logger, [level |-> "Warning", id |-> CurID,
                               what |-> "incorrect number of players in each team"])
  /\ hist' = Append(hist, Event(CurID, "skip"))
  /\ cur' = Len(sortedMatchIDs) + 1
  /\ UNCHANGED <<rawData, prev, rcSheet, lbSheet, alert, pc, players, playerOrder,
                 rowRatingChanges, matches, sortedMatchIDs, ctx, teamStats>>

\* if (teamA.length !== 5 || teamB.length !== 5) continue;
RejectTeamSize ==
  /\ InLoop
  /\ ValidateMatch(CurRows)
  /\ ~TeamSizesOk(CurRows)
  /\ Skip("Warning", "incorrect number of players in each team")

\* the date check placed after "Initialize new players"
RejectDateAfterInit ==
  /\ InLoop
  /\ ValidateMatch(CurRows)
  /\ TeamSizesOk(CurRows)
  /\ ~DateOk(CurRows[1].date)
  /\ players' = InitPlayers(players, CurRows, 1)
  /\ playerOrder' = InitOrder(playerOrder, CurRows, 1)
  /\ logger' = Append(logger, [level |-> "Error", id |-> CurID, what |-> "invalid date"])
  /\ hist' = Append(hist, Event(CurID, "skip"))
  /\ cur' = cur + 1
  /\ UNCHANGED <<rawData, prev, rcSheet, lbSheet, alert, pc, rowRatingChanges, matches,
                 sortedMatchIDs, ctx, teamStats>>

\* if (!(matchDate instanceof Date) || isNaN(matchDate.getTime())) continue;
RejectDate ==
  /\ InLoop
  /\ ValidateMatch(CurRows)
  /\ TeamSizesOk(CurRows)
  /\ ~DateOk(CurRows[1].date)
  /\ Skip("Error", "invalid date")

\* an admitted match: new players, idle growth, lobby averages, team ratings, team perf
AdmitMatch ==
  /\ InLoop
  /\ ValidateMatch(CurRows)
  /\ TeamSizesOk(CurRows)
  /\ DateOk(CurRows[1].date)
  /\ ctx' = MatchContext(players, CurID, CurRows)
  /\ players' = ctx'.grown
  /\ playerOrder' = InitOrder(playerOrder, CurRows, 1)
  /\ hist' = Append(hist, AdmitEvent(ctx'))
  /\ pc' = "teamA"
  /\ UNCHANGED <<rawData, prev, rcSheet, lbSheet, alert, logger, rowRatingChanges, matches,
                 sortedMatchIDs, cur, teamStats>>

\* applyTeamChanges(stats) on the player table and the recorded changes
ApplyTeam(stats, ev) ==
  \E ts \in {stats} :
    /\ teamStats' = ts
    /\ players' = ApplyChanges(players, ts, ctx.matchDate, 1)
    /\ rowRatingChanges' = RecordChanges(rowRatingChanges, ts)
    /\ hist' = Append(hist, TeamEvent(ctx.id, ev, ts))

\* applyTeamChanges(computeTeamStats(teamA, teamAPerf, teamAAvgRating, teamBAvgRating))
ApplyTeamA ==
  /\ pc = "teamA"
  /\ ApplyTeam(Normalize(ComputeTeamStats(players, ctx, ctx.teamA, ctx.teamAPerf,
                                          ctx.teamAAvgRating, ctx.teamBAvgRating)),
               "teamA")
  /\ pc' = "teamB"
  /\ UNCHANGED <<rawData, prev, rcSheet, lbSheet, alert, logger, playerOrder, matches,
                 sortedMatchIDs, cur, ctx>>

\* applyTeamChanges(computeTeamStats(teamB, teamBPerf, teamBAvgRating, teamAAvgRating))
ApplyTeamB ==
  /\ pc = "teamB"
  /\ ApplyTeam(Normalize(ComputeTeamStats(players, ctx, ctx.teamB, ctx.teamBPerf,
                                          ctx.teamBAvgRating, ctx.teamAAvgRating)),
               "teamB")
  /\ pc' = "loop"
  /\ cur' = cur + 1
  /\ UNCHANGED <<rawData, prev, rcSheet, lbSheet, alert, logger, playerOrder, matches,
                 sortedMatchIDs, ctx>>

\* the "Rating Change" sheet: cleared, header, sorted rows
WriteRatingChange ==
  /\ pc = "loop"
  /\ cur > Len(sortedMatchIDs)
  /\ rcSheet' = <<RcHeader>> \o RcRows(rawData, rowRatingChanges)
  /\ pc' = "leaderboard"
  /\ UNCHANGED <<rawData, prev, lbSheet, alert, logger, players, playerOrder,
                 rowRatingChanges, matches, sortedMatchIDs, cur, ctx, teamStats, hist>>

\* the "Leaderboard" sheet: cleared, header, ranked players; then the completion alert
WriteLeaderboard ==
  /\ pc = "leaderboard"
  /\ lbSheet' = <<LbHeader>> \o LbData(players, playerOrder)
  /\ alert' = "Ratings Updated"
  /\ pc' = "done"
  /\ UNCHANGED <<rawData, prev, rcSheet, logger, players, playerOrder,
                 rowRatingChanges, matches, sortedMatchIDs, cur, ctx, teamStats, hist>>

\* what a run leaves behind: the tables it built and the sheets and alert it wrote
Outcome ==
  [players |-> players, playerOrder |-> playerOrder,
   rowRatingChanges |-> rowRatingChanges, rcSheet |-> rcSheet, lbSheet |-> lbSheet,
   alert |-> alert]

\* players, rowRatingChanges and matches kept from the run before, as if they were
\* declared outside the function
RerunKeepingTables ==
  /\ pc \in {"done", "aborted"}
  /\ Len(prev) < MaxRuns - 1
  /\ Len(sortedMatchIDs) <= MaxRerunMatches
  /\ prev' = Append(prev, Outcome)
  /\ pc' = "start"
  /\ alert' = ""
  /\ logger' = <<>>
  /\ sortedMatchIDs' = <<>>
  /\ cur' = 1
  /\ ctx' = NoCtx
  /\ teamStats' = <<>>
  /\ hist' = <<>>
  /\ UNCHANGED <<rawData, rcSheet, lbSheet, players, playerOrder, rowRatingChanges,
                 matches>>

\* "Calculate Ratings" chosen again from the menu: the function starts over with
\* new locals (const players = {}, const rowRatingChanges = {}, const matches = {});
\* the workbook is as the run before left it
Rerun ==
  /\ pc \in {"done", "aborted"}
  /\ Len(prev) < MaxRuns - 1
  /\ Len(sortedMatchIDs) <= MaxRerunMatches
  /\ prev' = Append(prev, Outcome)
  /\ pc' = "start"
  /\ alert' = ""
  /\ logger' = <<>>
  /\ players' = <<>>
  /\ playerOrder' = <<>>
  /\ rowRatingChanges' = <<>>
  /\ matches' = <<>>
  /\ sortedMatchIDs' = <<>>
  /\ cur' = 1
  /\ ctx' = NoCtx
  /\ teamStats' = <<>>
  /\ hist' = <<>>
  /\ UNCHANGED <<rawData, rcSheet, lbSheet>>

Next ==
  \/ Abort
  \/ Ingest
  \/ RejectTeamLabel
  \/ RejectTeamSize
  \/ RejectDate
  \/ AdmitMatch
  \/ ApplyTeamA
  \/ ApplyTeamB
  \/ WriteRatingChange
  \/ WriteLeaderboard
  \/ Rerun

Spec == Init /\ [][Next]_vars

----------------------------------------------------------------------------
(* Properties *)

\* the admission gate as a whole
Admissible(matchPlayers) ==
  /\ ValidateMatch(matchPlayers)
  /\ TeamSizesOk(matchPlayers)
  /\ DateOk(matchPlayers[1].date)

LastEvent == hist[Len(hist)]

\* the players named by the rows of a match
PlayersOf(matchPlayers) == { matchPlayers[j].player : j \in 1..Len(matchPlayers) }

(* C1: a step taken on a match that fails admission (a team label other than
   'A' and 'B', team sizes other than 5 and 5, or an invalid date) leaves the
   player table as it was: no entry changes and no entry is added. *)
C1_RejectedMatchKeepsPlayers ==
  [][(InLoop /\ ~Admissible(CurRows)) =>
       (players' = players /\ playerOrder' = playerOrder)]_vars

\* a match was just skipped while players exist, and a player of the skipped
\* match has no entry
C1_Witness ==
  /\ hist # <<>>
  /\ LastEvent.ev = "skip"
  /\ DOMAIN players # {}
  /\ \E name \in PlayersOf(matches[LastEvent.id]) : name \notin DOMAIN players

(* C2: in every state of a run every player's uncertainty lies in
   [U_MIN, U_MAX] = [50, 200]. *)
C2_UncertaintyInRange ==
  \A name \in DOMAIN players :
    /\ players[name].uncertainty >= U_MIN * US
    /\ players[name].uncertainty <= U_MAX * US

\* a player created at U_INIT whose uncertainty an idle period has grown in this
\* run has since decayed down to the floor
C2_Witness ==
  \E name \in DOMAIN players :
    /\ players[name].uncertainty = U_MIN * US
    /\ \E k \in 1..Len(hist) :
         /\ hist[k].ev = "admit"
         /\ \E j \in 1..Len(hist[k].rows) :
              hist[k].rows[j].player = name /\ hist[k].rows[j].change > 0

(* C10: when the sheet has no data row (a header only, or nothing) the run
   stops with the alert before anything is changed: no player exists, nothing
   is grouped or recorded, and neither output sheet is cleared or written;
   and such a run never gets past that test. *)
C10_EmptyInputAborts ==
  /\ Len(rawData) < 2 => pc \in {"start", "aborted"}
  /\ pc = "aborted" =>
       /\ Len(rawData) < 2
       /\ alert = "No data found in Raw Data sheet"
       /\ players = <<>> /\ playerOrder = <<>> /\ rowRatingChanges = <<>>
       /\ rcSheet = StaleSheet /\ lbSheet = StaleSheet

\* the run on a header-only sheet has stopped
C10_Witness == pc = "aborted" /\ rawData = <<Header>>

----------------------------------------------------------------------------
(* Ratings and recorded changes *)

RECURSIVE SumOver(_, _)
SumOver(f, S) ==
  IF S = {} THEN 0
  ELSE LET i == CHOOSE i \in S : TRUE IN f[i] + SumOver(f, S \ {i})

\* the input rows of a player that carry a recorded change
RowsOfPlayer(name) == { i \in DOMAIN rowRatingChanges : rawData[i + 1].player = name }

\* the unrounded change applied for input row i, as the history kept it
AppliedChange(i) ==
  LET k == CHOOSE k \in 1..Len(hist) :
             /\ hist[k].ev \in {"teamA", "teamB"}
             /\ \E j \in 1..Len(hist[k].rows) : hist[k].rows[j].rowIndex = i
      j == CHOOSE j \in 1..Len(hist[k].rows) : hist[k].rows[j].rowIndex = i
  IN hist[k].rows[j].change

\* 1500 plus the sum of the rounded changes recorded for the player's rows
RoundedTotal(name) ==
  INITIAL_RATING + SumOver([i \in RowsOfPlayer(name) |-> rowRatingChanges[i]],
                           RowsOfPlayer(name))

\* 1500 plus the sum of the unrounded changes applied for the player's rows
AppliedTotal(name) ==
  INITIAL_RATING * RS + SumOver([i \in RowsOfPlayer(name) |-> AppliedChange(i)],
                                RowsOfPlayer(name))

(* C3 as stated: on the finished leaderboard every player's rating is 1500 plus
   the sum of the rounded changes recorded for that player's rows. *)
C3_Original ==
  pc = "done" =>
    \A k \in 2..Len(lbSheet) : lbSheet[k].rating = RoundedTotal(lbSheet[k].player)

(* C3: on the finished leaderboard every player's rating is 1500 plus the sum of
   the unrounded changes of that player's rows, rounded once; it is within
   (n + 1) / 2 of 1500 plus the sum of the n rounded changes recorded for those
   rows, and equal to it when n <= 1. *)
C3_RoundedOnceAtTheEnd ==
  pc = "done" =>
    \A k \in 2..Len(lbSheet) :
      LET name == lbSheet[k].player
          n    == Cardinality(RowsOfPlayer(name))
      IN /\ lbSheet[k].rating = MathRound(AppliedTotal(name), RS)
         /\ 2 * Abs(lbSheet[k].rating - RoundedTotal(name)) <= n + 1
         /\ n <= 1 => lbSheet[k].rating = RoundedTotal(name)

\* a finished leaderboard with a player of several rows whose rating is not
\* 1500 plus the rounded changes
C3_Witness ==
  /\ pc = "done"
  /\ \E k \in 2..Len(lbSheet) :
       /\ Cardinality(RowsOfPlayer(lbSheet[k].player)) >= 2
       /\ lbSheet[k].rating # RoundedTotal(lbSheet[k].player)

----------------------------------------------------------------------------
(* Snapshots and single processing *)

\* the last applyTeamChanges call belongs to the match in ctx
TeamApplied == hist # <<>> /\ LastEvent.ev \in {"teamA", "teamB"}

(* C4 as stated: the K-factor of every entry of a team is computed from the
   player's matches and grown uncertainty as they were before any update of
   the match. *)
C4_Original ==
  TeamApplied =>
    \A j \in 1..Len(teamStats) :
      teamStats[j].kFactor = KFactor(ctx.grown[teamStats[j].p.player])

(* C5 as stated: once both teams of an admitted match are applied, every player
   named in it has one more match, the idle growth applied once and the decay
   applied once, and the match date as lastDate. *)
C5_Original ==
  (hist # <<>> /\ LastEvent.ev = "teamB") =>
    \A name \in PlayersOf(ctx.matchPlayers) :
      /\ players[name].matches = ctx.pre[name].matches + 1
      /\ players[name].uncertainty =
           Decay(GrowOne(ctx.pre[name], ctx.matchDate).uncertainty)
      /\ players[name].lastDate = ctx.matchDate

----------------------------------------------------------------------------
(* Redistribution within a team *)

TeamSumK == SumSeq([j \in 1..Len(teamStats) |-> teamStats[j].kFactor])

(* C6: for the team just applied, the K-weighted sum of the perfMod values is the
   sum of the kFactors (their K-weighted mean is 1), in the gain and in the loss
   branch; the five changes add up to baseChange times the sum of the kFactors,
   up to the rounding of each change to a hundredth; and when the five rawPerf
   are equal every perfMod is 1. *)
C6_WeightedMeanIsOne ==
  TeamApplied =>
    /\ SumSeq([j \in 1..Len(teamStats) |->
                 teamStats[j].kFactor * teamStats[j].perfMod.num])
         = TeamSumK * teamStats[1].perfMod.den
    /\ \A j \in 1..Len(teamStats) : teamStats[j].perfMod.den = teamStats[1].perfMod.den
    /\ 2 * Abs(SumSeq([j \in 1..Len(teamStats) |-> RatingChange(teamStats[j])])
                 * ((KS * PS) \div RS)
               - teamStats[1].baseChange * TeamSumK)
         <= Len(teamStats) * ((KS * PS) \div RS)
    /\ (\A j \in 1..Len(teamStats) : teamStats[j].rawPerf = teamStats[1].rawPerf)
         => \A j \in 1..Len(teamStats) :
              teamStats[j].perfMod.num = teamStats[j].perfMod.den

\* a losing team whose players differ in kFactor and in rawPerf
C6_Witness ==
  /\ TeamApplied
  /\ ~teamStats[1].isGain /\ teamStats[1].baseChange # 0
  /\ \E i, j \in 1..Len(teamStats) :
       /\ teamStats[i].kFactor # teamStats[j].kFactor
       /\ teamStats[i].rawPerf # teamStats[j].rawPerf
       /\ teamStats[i].perfMod.num # teamStats[i].perfMod.den

----------------------------------------------------------------------------
(* Processing order *)

\* the place of an event within the iteration of its match
EvRank(ev) == CASE ev = "skip" -> 0 [] ev = "admit" -> 1 [] ev = "teamA" -> 2
                [] ev = "teamB" -> 3

(* C7: every event of the history comes after all events of matches with a
   smaller numeric ID and after no event of a match with a larger one, whatever
   the order of the rows in the sheet; the events of one match are its growth,
   its team A updates and its team B updates, once each and in that order, or a
   single skip. *)
C7_AscendingNumericOrder ==
  \A i \in 1..(Len(hist) - 1) :
    IF hist[i].id = LastEvent.id
    THEN hist[i].ev # "skip" /\ EvRank(hist[i].ev) < EvRank(LastEvent.ev)
    ELSE /\ Number(hist[i].id) < Number(LastEvent.id)
         /\ hist[i].ev \in {"skip", "teamB"} \/ \E j \in (i + 1)..(Len(hist) - 1) :
                                                  hist[j].id = hist[i].id

\* a finished run of two admitted matches whose rows come in the sheet in the
\* opposite order of their numeric IDs
C7_Witness ==
  /\ pc = "done"
  /\ \E i, j \in 1..Len(hist) :
       /\ i < j
       /\ hist[i].ev = "teamB" /\ hist[j].ev = "admit"
       /\ \E a, b \in 2..Len(rawData) :
            a < b /\ rawData[a].matchID = hist[j].id /\ rawData[b].matchID = hist[i].id

----------------------------------------------------------------------------
(* The run as a function of the sheet *)

\* the element of a one-element set: a value computed once and then named
Only(S) == CHOOSE x \in S : TRUE

\* the tables after applyTeamChanges(teamB stats): sa, sb are the stats of the two
\* teams, pa the player table after team A was applied
AfterTeamB(st, c, sa, pa, sb) ==
  [players |-> ApplyChanges(pa, sb, c.matchDate, 1),
   order |-> InitOrder(st.order, c.matchPlayers, 1),
   rrc |-> Only({ RecordChanges(r1, sb) : r1 \in {RecordChanges(st.rrc, sa)} })]

\* computeTeamStats(teamB, ...), called on the player table as team A left it
FromTeamB(st, c, sa, pa) ==
  Only({ AfterTeamB(st, c, sa, pa, sb) :
           sb \in {Normalize(ComputeTeamStats(pa, c, c.teamB, c.teamBPerf,
                                              c.teamBAvgRating, c.teamAAvgRating))} })

\* applyTeamChanges(teamA stats)
FromApplyA(st, c, sa) ==
  Only({ FromTeamB(st, c, sa, pa) : pa \in {ApplyChanges(c.grown, sa, c.matchDate, 1)} })

\* computeTeamStats(teamA, ...)
FromTeamA(st, c) ==
  Only({ FromApplyA(st, c, sa) :
           sa \in {Normalize(ComputeTeamStats(c.grown, c, c.teamA, c.teamAPerf,
                                              c.teamAAvgRating, c.teamBAvgRating))} })

\* one iteration of the loop over sortedMatchIDs, on the tables st
RunMatch(st, id, matchPlayers) ==
  IF ~(ValidateMatch(matchPlayers) /\ TeamSizesOk(matchPlayers)
       /\ DateOk(matchPlayers[1].date))
  THEN st
  ELSE Only({ FromTeamA(st, c) : c \in {MatchContext(st.players, id, matchPlayers)} })

RECURSIVE RunFrom(_, _, _, _)
RunFrom(st, grouped, ids, k) ==
  IF k > Len(ids) THEN st
  ELSE Only({ RunFrom(nxt, grouped, ids, k + 1) :
                nxt \in {RunMatch(st, ids[k], grouped[ids[k]])} })

\* players, their key order and rowRatingChanges at the end of the loop
Run(data) ==
  LET empty == [players |-> <<>>, order |-> <<>>, rrc |-> <<>>]
  IN IF Len(data) < 2 THEN empty
     ELSE RunFrom(empty, GroupRows(data), SortMatchIDs(ObjectKeys(data)), 1)

\* the input row i belongs to a match that passes the gate
Kept(i) == Admissible(matches[rawData[i + 1].matchID])

\* the input rows of the matches that pass the gate, in sheet order
KeptRows == SelectSeq([i \in 1..(Len(rawData) - 1) |-> i], Kept)

\* the sheet without the rows of the matches that fail the gate
WithoutRejected ==
  <<rawData[1]>> \o [k \in 1..Len(KeptRows) |-> rawData[KeptRows[k] + 1]]

(* C8: at the end of a run every match of the sheet has been visited (skipped or
   applied), and the player table and the recorded change of every row of an
   admitted match are those of the run on the sheet without the rows of the
   rejected matches. *)
C8_RejectedMatchExcluded ==
  pc = "done" =>
    /\ \A id \in DOMAIN matches :
         \E k \in 1..Len(hist) : hist[k].id = id /\ hist[k].ev \in {"skip", "teamB"}
    /\ \A kept \in {KeptRows}, r \in {Run(WithoutRejected)} :
         /\ players = r.players
         /\ playerOrder = r.order
         /\ DOMAIN rowRatingChanges = { kept[k] : k \in 1..Len(kept) }
         /\ DOMAIN r.rrc = 1..Len(kept)
         /\ \A k \in 1..Len(kept) : rowRatingChanges[kept[k]] = r.rrc[k]

\* a finished run that skipped a match and applied a later one
C8_Witness ==
  /\ pc = "done"
  /\ \E i, j \in 1..Len(hist) :
       i < j /\ hist[i].ev = "skip" /\ hist[j].ev = "teamB"

----------------------------------------------------------------------------
(* The audit table *)

(* C9: once the "Rating Change" sheet is written, every input row is in it once,
   with a number in its last column if its match passed the gate and a blank
   otherwise; the number is the rounded change applied for the row, and the
   players of such a row have been updated by the match. *)
C9_DeltaIffAdmitted ==
  pc \in {"leaderboard", "done"} =>
    /\ Len(rcSheet) = Len(rawData)
    /\ \A i \in 1..(Len(rawData) - 1) :
         \E k \in 2..Len(rcSheet) :
           /\ rcSheet[k].rowIndex = i
           /\ rcSheet[k].change.blank <=> ~Kept(i)
           /\ Kept(i) =>
                /\ rcSheet[k].change.v = MathRound(AppliedChange(i), RS)
                /\ rcSheet[k].player \in DOMAIN players
                /\ players[rcSheet[k].player].matches >= 1
                /\ players[rcSheet[k].player].lastDate.kind = "date"

\* a written audit table with the rows of an admitted and of a rejected match
C9_Witness ==
  /\ pc = "done"
  /\ \E a, b \in 2..Len(rcSheet) :
       rcSheet[a].change.blank /\ ~rcSheet[b].change.blank /\ rcSheet[b].change.v # 0

----------------------------------------------------------------------------
(* Running again *)

\* what calculateAllRatings computes from a sheet, as a function of the sheet
Result(data) ==
  Only({ [players |-> r.players, playerOrder |-> r.order, rowRatingChanges |-> r.rrc,
          rcSheet |-> <<RcHeader>> \o RcRows(data, r.rrc),
          lbSheet |-> <<LbHeader>> \o LbData(r.players, r.order),
          alert |-> "Ratings Updated"] : r \in {Run(data)} })

(* C11: a run that has ended left the same player table, the same recorded
   changes, the same "Rating Change" sheet and the same "Leaderboard" sheet as
   every earlier run on the sheet; and what a completed run leaves is the value
   of a function of the sheet alone. *)
C11_RerunReproduces ==
  /\ pc \in {"done", "aborted"} => \A k \in 1..Len(prev) : prev[k] = Outcome
  /\ pc = "done" => Outcome = Result(rawData)

\* a second run has completed on a sheet with an admitted match
C11_Witness ==
  /\ pc = "done"
  /\ Len(prev) >= 1
  /\ DOMAIN players # {}
  /\ prev[1].lbSheet # StaleSheet

----------------------------------------------------------------------------
(* The order of the audit table *)

\* the input rows that are at position k of the "Rating Change" sheet
SameCells(k, i) == \A f \in DOMAIN rawData[i + 1] : rcSheet[k][f] = rawData[i + 1][f]

\* row a has to come before row b: earlier date, then smaller MatchID text, then
\* fewer rounds won, then smaller team label, then higher ACS, then more kills;
\* two rows are compared by date when both hold a valid date
ComesBefore(a, b) ==
  IF a.date.kind = "date" /\ b.date.kind = "date" /\ a.date.t # b.date.t
  THEN a.date.t < b.date.t
  ELSE IF a.date # b.date THEN FALSE
  ELSE IF a.matchID # b.matchID THEN LocaleRank(a.matchID) < LocaleRank(b.matchID)
  ELSE IF a.roundsWon # b.roundsWon THEN a.roundsWon < b.roundsWon
  ELSE IF a.team # b.team THEN TeamRank(a.team) < TeamRank(b.team)
  ELSE IF a.acs # b.acs THEN a.acs > b.acs
  ELSE a.kills > b.kills

(* C12 as stated: the written audit table holds every input row once, and no
   row comes after a row it has to come before. *)
C12_Original ==
  pc \in {"leaderboard", "done"} =>
    /\ Len(rcSheet) = Len(rawData)
    /\ \A i \in 1..(Len(rawData) - 1) :
         Cardinality({ k \in 2..Len(rcSheet) : rcSheet[k].rowIndex = i }) = 1
    /\ \A k \in 2..Len(rcSheet) : SameCells(k, rcSheet[k].rowIndex)
    /\ \A i, j \in 2..Len(rcSheet) : i < j => ~ComesBefore(rcSheet[j], rcSheet[i])

----------------------------------------------------------------------------
(* The leaderboard *)

\* the player identifiers of the rows of the sheet
SeenPlayers == { rawData[i].player : i \in 2..Len(rawData) }

\* the player identifiers of the rows of the matches admitted so far in this run
AdmittedPlayers ==
  UNION { { hist[k].rows[j].player : j \in 1..Len(hist[k].rows) } :
            k \in { k \in 1..Len(hist) : hist[k].ev = "admit" } }

\* the leaderboard rows that list a player
ListedAt(name) == { k \in 2..Len(lbSheet) : lbSheet[k].player = name }

(* C13 as stated: the finished leaderboard lists every player identifier of the
   sheet exactly once. *)
C13_Original ==
  pc = "done" => \A name \in SeenPlayers : Cardinality(ListedAt(name)) = 1

(* C13: the player table holds exactly the identifiers of the rows of the
   matches admitted so far, each once from its first admitted row on; the
   finished leaderboard lists exactly these players, each once, with ranks
   1..n in row order and rounded ratings that do not increase with the rank. *)
C13_LeaderboardListsAdmitted ==
  /\ pc \notin {"start", "aborted"} =>
       /\ DOMAIN players = AdmittedPlayers
       /\ Len(playerOrder) = Cardinality(DOMAIN players)
       /\ \A name \in DOMAIN players : \E k \in 1..Len(playerOrder) : playerOrder[k] = name
  /\ pc = "done" =>
       /\ Len(lbSheet) = 1 + Cardinality(DOMAIN players)
       /\ \A name \in DOMAIN players : Cardinality(ListedAt(name)) = 1
       /\ \A k \in 2..Len(lbSheet) :
            /\ lbSheet[k].player \in DOMAIN players
            /\ lbSheet[k].player \in SeenPlayers
            /\ lbSheet[k].rank = k - 1
            /\ lbSheet[k].rating = MathRound(players[lbSheet[k].player].rating, RS)
            /\ k > 2 => lbSheet[k - 1].rating >= lbSheet[k].rating

\* a finished leaderboard with players of different ratings, on a sheet that also
\* names a player who is in no admitted match
C13_Witness ==
  /\ pc = "done"
  /\ Len(lbSheet) > 2
  /\ lbSheet[2].rating > lbSheet[Len(lbSheet)].rating
  /\ \E name \in SeenPlayers : ListedAt(name) = {}

----------------------------------------------------------------------------
(* The order of the two teams *)

\* the two calls of line 193 and line 194 made in the other order, on the match
\* context c: team B computed and applied first (sb, pb), team A second (sa)
BFirstEnd(c, sb, pb, sa) ==
  [players |-> ApplyChanges(pb, sa, c.matchDate, 1),
   rrc |-> RecordChanges(RecordChanges(<<>>, sb), sa)]

BFirstTeamA(c, sb, pb) ==
  Only({ BFirstEnd(c, sb, pb, sa) :
           sa \in {Normalize(ComputeTeamStats(pb, c, c.teamA, c.teamAPerf,
                                              c.teamAAvgRating, c.teamBAvgRating))} })

BFirstApplyB(c, sb) ==
  Only({ BFirstTeamA(c, sb, pb) : pb \in {ApplyChanges(c.grown, sb, c.matchDate, 1)} })

TeamBFirst(c) ==
  Only({ BFirstApplyB(c, sb) :
           sb \in {Normalize(ComputeTeamStats(c.grown, c, c.teamB, c.teamBPerf,
                                              c.teamBAvgRating, c.teamAAvgRating))} })

(* C14 as stated: when both teams of an admitted match are applied, the player
   table and the recorded changes of the rows of the match are what they would
   be had team B been computed and applied before team A. *)
C14_Original ==
  (hist # <<>> /\ LastEvent.ev = "teamB") =>
    \A r \in {TeamBFirst(ctx)} :
      /\ players = r.players
      /\ \A i \in DOMAIN r.rrc : rowRatingChanges[i] = r.rrc[i]

----------------------------------------------------------------------------
(* Sign and monotonicity of the changes within a team *)

(* C15: for the team just applied every perfMod and every kFactor is positive, no
   change is negative when the team gains and none is positive when it loses;
   and of two teammates with the same kFactor the one with the higher rawPerf
   has the larger or equal perfMod on a gain, the smaller or equal perfMod on a
   loss, and in both cases the larger or equal change. *)
C15_SameSignAndMonotone ==
  TeamApplied =>
    /\ \A j \in 1..Len(teamStats) :
         /\ teamStats[j].rawPerf > 0
         /\ teamStats[j].kFactor > 0
         /\ teamStats[j].perfMod.num > 0 /\ teamStats[j].perfMod.den > 0
         /\ teamStats[j].isGain => RatingChange(teamStats[j]) >= 0
         /\ ~teamStats[j].isGain => RatingChange(teamStats[j]) <= 0
    /\ \A i, j \in 1..Len(teamStats) :
         (teamStats[i].kFactor = teamStats[j].kFactor
            /\ teamStats[i].rawPerf > teamStats[j].rawPerf) =>
           /\ teamStats[i].isGain => teamStats[i].perfMod.num >= teamStats[j].perfMod.num
           /\ ~teamStats[i].isGain => teamStats[i].perfMod.num <= teamStats[j].perfMod.num
           /\ RatingChange(teamStats[i]) >= RatingChange(teamStats[j])

\* a losing team in which, of two teammates with the same kFactor, the one with the
\* higher rawPerf loses less
C15_Witness ==
  /\ TeamApplied
  /\ ~teamStats[1].isGain
  /\ \E i, j \in 1..Len(teamStats) :
       /\ teamStats[i].kFactor = teamStats[j].kFactor
       /\ teamStats[i].rawPerf > teamStats[j].rawPerf
       /\ RatingChange(teamStats[j]) < RatingChange(teamStats[i])
       /\ RatingChange(teamStats[i]) < 0

----------------------------------------------------------------------------
(* The two teams of a match against each other *)

\* the entries team A of the current match was applied with: computeTeamStats is
\* called for team A on the player table left by the idle growth
TeamAStats ==
  Normalize(ComputeTeamStats(ctx.grown, ctx, ctx.teamA, ctx.teamAPerf,
                             ctx.teamAAvgRating, ctx.teamBAvgRating))

\* both teams of the current match have been applied; teamStats is team B's
BothTeamsApplied ==
  /\ Len(hist) >= 2 /\ LastEvent.ev = "teamB"
  /\ hist[Len(hist) - 1].ev = "teamA" /\ hist[Len(hist) - 1].id = LastEvent.id

SumK(stats) == SumSeq([j \in 1..Len(stats) |-> stats[j].kFactor])

\* the sum of the unrounded changes of one applyTeamChanges call, in hundredths
TotalChange(e) == SumSeq([j \in 1..Len(e.rows) |-> e.rows[j].change])

\* kFactor * baseChange in the unit of a change: one hundredth of a rating point
ChangeUnit == (KS * PS) \div RS

\* what the two teams of a match always satisfy, sa being team A's entries:
\* teamAPerf + teamBPerf = 1; the expected scores add up to 1 and team B's
\* baseChange is the negative of team A's, both within one unit of the fourth
\* decimal the arithmetic here is carried to; the teams never both gain and never
\* both lose; and the ten changes add up to baseChangeA * (sumKA - sumKB), within
\* the half hundredth each change is rounded by and that one unit on team B
OppositeTeams(sa) ==
  /\ \A j \in 1..Len(sa) : sa[j].p.rowIndex = hist[Len(hist) - 1].rows[j].rowIndex
                           /\ RatingChange(sa[j]) = hist[Len(hist) - 1].rows[j].change
  /\ ctx.teamAPerf + ctx.teamBPerf = PS
  /\ Abs(Expected(ctx.teamAAvgRating, ctx.teamBAvgRating)
         + Expected(ctx.teamBAvgRating, ctx.teamAAvgRating) - PS) <= 1
  /\ Abs(sa[1].baseChange + teamStats[1].baseChange) <= 1
  /\ ~(sa[1].baseChange > 0 /\ teamStats[1].baseChange > 0)
  /\ ~(sa[1].baseChange < 0 /\ teamStats[1].baseChange < 0)
  /\ ~(sa[1].isGain /\ teamStats[1].isGain)
  /\ 2 * Abs((TotalChange(hist[Len(hist) - 1]) + TotalChange(LastEvent)) * ChangeUnit
             - sa[1].baseChange * (SumK(sa) - SumK(teamStats)))
       <= (Len(sa) + Len(teamStats)) * ChangeUnit + 2 * SumK(teamStats)

(* C16 as stated: the teams are opposite as above, and the total of the ten
   changes, baseChangeA * (sumKA - sumKB), is zero exactly when the kFactor sums
   of the two teams are equal. *)
C16_Original ==
  BothTeamsApplied =>
    \A sa \in {TeamAStats} :
      /\ OppositeTeams(sa)
      /\ (sa[1].baseChange * (SumK(sa) - SumK(teamStats)) = 0)
           <=> (SumK(sa) = SumK(teamStats))

(* C16: the teams are opposite as above; when the kFactor sums are equal, or
   baseChangeA is zero, the total of the ten changes is zero up to the rounding;
   and a total that is not zero beyond the rounding comes with unequal kFactor
   sums and a baseChangeA that is not zero. *)
C16_OppositeBaseChange ==
  BothTeamsApplied =>
    \A sa \in {TeamAStats} :
      /\ OppositeTeams(sa)
      /\ (SumK(sa) = SumK(teamStats) \/ sa[1].baseChange = 0)
           => 2 * Abs(TotalChange(hist[Len(hist) - 1]) + TotalChange(LastEvent)) * ChangeUnit
                <= (Len(sa) + Len(teamStats)) * ChangeUnit + 2 * SumK(teamStats)
      /\ (sa[1].baseChange * (SumK(sa) - SumK(teamStats)) = 0)
           <=> (SumK(sa) = SumK(teamStats) \/ sa[1].baseChange = 0)

\* team A gains, team B loses, the kFactor sums differ and the ten changes do not
\* cancel
C16_Witness ==
  /\ BothTeamsApplied
  /\ teamStats[1].baseChange < 0
  /\ SumK(TeamAStats) # SumK(teamStats)
  /\ TotalChange(hist[Len(hist) - 1]) > 0
  /\ TotalChange(LastEvent) < 0
  /\ TotalChange(hist[Len(hist) - 1]) + TotalChange(LastEvent) # 0

----------------------------------------------------------------------------
(* The rows that tell the result of a match *)

(* C17: at the end of a run the player table, its key order and the recorded
   change of every row are those of the run on the sheet that differs from the
   input only in the RoundsWon / RoundsLost cells of the rows that are not the
   first team-A row of their match, whether those cells are exchanged or set
   to 0. *)
C17_OnlyAnchorRowCounts ==
  pc = "done" =>
    \A mode \in RoundsModes :
      \A r \in {Run(OtherRounds(rawData, mode))} :
        /\ players = r.players
        /\ playerOrder = r.order
        /\ rowRatingChanges = r.rrc

\* a finished run on a sheet where a team-B row and a later team-A row of an
\* admitted match both contradict the first team-A row, which tells a win of
\* team A, and team A has gained
C17_Witness ==
  /\ pc = "done"
  /\ \E a, b, c \in 2..Len(rawData) :
       /\ AnchorRow(rawData, a)
       /\ rawData[a].roundsWon > rawData[a].roundsLost
       /\ rawData[b].matchID = rawData[a].matchID /\ rawData[b].team = "B"
       /\ rawData[b].roundsWon > rawData[b].roundsLost
       /\ rawData[c].matchID = rawData[a].matchID /\ rawData[c].team = "A"
       /\ rawData[c].roundsWon < rawData[c].roundsLost
       /\ (a - 1) \in DOMAIN rowRatingChanges /\ rowRatingChanges[a - 1] > 0
       /\ (c - 1) \in DOMAIN rowRatingChanges /\ rowRatingChanges[c - 1] > 0
       /\ (b - 1) \in DOMAIN rowRatingChanges /\ rowRatingChanges[b - 1] < 0

====
